---- MODULE Spec2Model ----
(***************************************************************************)
(* Order lifecycle and weekly aggregation of the room-service order form   *)
(* (src/app.py): guest submission, admin confirm / reject / edit / purge,  *)
(* and the weekly per-item report.                                         *)
(*                                                                         *)
(* Text (form fields, comments) is a sequence of one-character strings so  *)
(* that str.strip() and int() are computed, not assumed.  Time is counted  *)
(* in half seconds; a datetime is the number of half seconds since the     *)
(* midnight that starts day 0.                                             *)
(***************************************************************************)
EXTENDS Integers, Sequences, FiniteSets, TLC

VARIABLES
    items,            \* table Item: item id -> name
    orders,           \* table Order: order id -> row
    order_items,      \* table OrderItem: rows in rowid order
    now,              \* the clock read by datetime.utcnow()
    admin_logged_in,  \* session['admin_logged_in'] of the admin's browser
    threads,          \* confirm / reject requests in flight, one per worker
    resp              \* the last request served as a whole, and its response

vars == <<items, orders, order_items, now, admin_logged_in, threads, resp>>

----------------------------------------------------------------------------
(* Bounds of the model *)

MaxOrderId == 2      \* order ids stay in 1..MaxOrderId
MaxClockStep == 2    \* the running clock visits Instant(1) .. Instant(MaxClockStep)
MaxEditLen == 2      \* length of the item list sent to the edit endpoint
MaxQty == 1          \* largest quantity in an edit request
NumWorkers == 2      \* confirm / reject requests served at the same time
MaxReportStep == 4   \* confirmation times of the orders a report is taken over
MaxItemId == 3       \* item ids stay in 1..MaxItemId
MaxBulkLines == 2    \* lines of the text sent to the bulk-add endpoint

----------------------------------------------------------------------------
(* Values *)

NULL == -1                      \* a NULL DateTime column
NullText == <<"<NULL>">>        \* a NULL Text column
Absent == <<"<absent>">>        \* a form field or query parameter not sent

HalfSecondsPerDay == 172800

Max(S) == CHOOSE x \in S : \A y \in S : y <= x

\* datetime(...).replace(hour=23, minute=59, second=59) of day d
EndOfDay(d) == d * HalfSecondsPerDay + 2 * (23 * 3600 + 59 * 60 + 59)

\* datetime.strptime(s, '%Y-%m-%d') of day d: midnight
Midnight(d) == d * HalfSecondsPerDay

----------------------------------------------------------------------------
(* str.strip() and int() *)

IsSpace(c) == c \in {" ", "\t", "\n"}

RECURSIVE LStrip(_)
LStrip(s) == IF s # <<>> /\ IsSpace(Head(s)) THEN LStrip(Tail(s)) ELSE s

RECURSIVE RStrip(_)
RStrip(s) ==
    IF s # <<>> /\ IsSpace(s[Len(s)]) THEN RStrip(SubSeq(s, 1, Len(s) - 1)) ELSE s

Strip(s) == RStrip(LStrip(s))

Digits == {"0", "1", "2", "3", "4", "5", "6", "7", "8", "9"}

DigitVal(c) ==
    CASE c = "0" -> 0 [] c = "1" -> 1 [] c = "2" -> 2 [] c = "3" -> 3
      [] c = "4" -> 4 [] c = "5" -> 5 [] c = "6" -> 6 [] c = "7" -> 7
      [] c = "8" -> 8 [] c = "9" -> 9

RECURSIVE DecimalVal(_)
DecimalVal(s) ==
    IF s = <<>> THEN 0
    ELSE 10 * DecimalVal(SubSeq(s, 1, Len(s) - 1)) + DigitVal(s[Len(s)])

AllDigits(s) == s # <<>> /\ \A i \in 1..Len(s) : s[i] \in Digits

\* int(s): [ok |-> FALSE] stands for ValueError
PyInt(s) ==
    LET t == Strip(s)
        signed == t # <<>> /\ Head(t) \in {"+", "-"}
        body == IF signed THEN Tail(t) ELSE t
    IN  IF AllDigits(body)
        THEN [ok |-> TRUE,
              val |-> IF signed /\ Head(t) = "-" THEN 0 - DecimalVal(body)
                      ELSE DecimalVal(body)]
        ELSE [ok |-> FALSE, val |-> 0]

----------------------------------------------------------------------------
(* Tables *)

StoredOrderIds == DOMAIN orders

\* order.order_items: the OrderItem rows of one order, in rowid order
ItemsOf(tbl, oid) == SelectSeq(tbl, LAMBDA r : r.order_id = oid)

\* WithoutItemsOf for a relationship without the delete cascade
KeepsItemsOf(tbl, oids) == tbl

\* WithoutItemsOf without the filter on order_id
WithoutAnyItems(tbl, oids) == <<>>

\* OrderItem.query.filter_by(order_id=oid).delete(), and the delete cascade
WithoutItemsOf(tbl, oids) == SelectSeq(tbl, LAMBDA r : r.order_id \notin oids)

\* rollback that leaves the work of the failed transaction in the table
rollback_keeps_work(committed, working) == working

\* db.session.rollback(): the table as last committed, whatever the
\* transaction had deleted, changed or added
rollback(committed, working) == committed

\* INTEGER PRIMARY KEY without AUTOINCREMENT: largest rowid in use plus one
NextOrderId == IF StoredOrderIds = {} THEN 1 ELSE Max(StoredOrderIds) + 1

\* Item.query.order_by(Item.name).all(), as a sequence of item ids
NameRank(n) == CASE n = "Tea" -> 1 [] n = "Water" -> 2 [] n = "water" -> 3

RECURSIVE SortedIds(_)
SortedIds(S) ==
    IF S = {} THEN <<>>
    ELSE LET first == CHOOSE i \in S :
                          \A j \in S : NameRank(items[i]) <= NameRank(items[j])
         IN  <<first>> \o SortedIds(S \ {first})

items_from_db == SortedIds(DOMAIN items)

----------------------------------------------------------------------------
(* Requests and responses *)

NoRequest == [op |-> "none"]

NoReport == [items |-> <<>>, total_orders |-> 0, start_date |-> 0, end_date |-> 0]

\* Response of a handler that calls send_new_order_notification on its way
ResponseNotifies(req, code, msg) ==
    [req |-> req, code |-> code, msg |-> msg,
     mail |-> "sent", count |-> 0, report |-> NoReport]

\* code: the HTTP status; msg: the flash category or the JSON 'status';
\* mail: what became of the notification; count: the number in the message;
\* report: what the report template is given
Response(req, code, msg) ==
    [req |-> req, code |-> code, msg |-> msg,
     mail |-> "none", count |-> 0, report |-> NoReport]

----------------------------------------------------------------------------
(* The clock *)

\* the instants the clock is sampled at: midnight, 23:59:59 sharp and the
\* half second after it, day after day
Instant(k) ==
    LET d == (k - 1) \div 3
        o == (k - 1) % 3
    IN  IF o = 0 THEN Midnight(d)
        ELSE IF o = 1 THEN EndOfDay(d)
        ELSE EndOfDay(d) + 1

Instants == {Instant(k) : k \in 1..MaxClockStep}

Tick ==
    /\ \E t \in Instants : t > now /\ now' = t
    /\ UNCHANGED <<items, orders, order_items, admin_logged_in, threads, resp>>

----------------------------------------------------------------------------
(* POST / : a guest submits the order form *)

MailOutcomes == {"skipped", "sent", "failed"}

\* MailAfter with the notification sent before db.session.commit()
MailBeforeCommit(committed) == MailOutcomes

\* what can become of the notification: send_new_order_notification is
\* called after db.session.commit() returned, and not at all when it raised
MailAfter(committed) == IF committed THEN MailOutcomes ELSE {"none"}

SubmitRequest(name, phone, room, form) ==
    [op |-> "submit", customer_name |-> name, customer_phone |-> phone,
     room_number |-> room, form |-> form]

\* request.form.get(f'qty_{item.id}', '0')
FormQty(form, id) == IF form[id] = Absent THEN <<"0">> ELSE form[id]

\* OrderDetails with the test qty >= 0 in place of qty > 0
RECURSIVE OrderDetailsKeepsZero(_, _)
OrderDetailsKeepsZero(ids, form) ==
    IF ids = <<>> THEN <<>>
    ELSE LET id == Head(ids)
             qty == PyInt(FormQty(form, id))
         IN  (IF qty.ok /\ qty.val >= 0
              THEN <<[item_name |-> items[id], quantity |-> qty.val]>>
              ELSE <<>>) \o OrderDetailsKeepsZero(Tail(ids), form)

\* order_details: the (name, quantity) pairs kept by the loop, in loop order
RECURSIVE OrderDetails(_, _)
OrderDetails(ids, form) ==
    IF ids = <<>> THEN <<>>
    ELSE LET id == Head(ids)
             qty == PyInt(FormQty(form, id))
         IN  (IF qty.ok /\ qty.val > 0
              THEN <<[item_name |-> items[id], quantity |-> qty.val]>>
              ELSE <<>>) \o OrderDetails(Tail(ids), form)

\* the OrderItem rows appended to new_order.order_items
NewOrderRows(oid, details) ==
    [i \in 1..Len(details) |->
        [order_id |-> oid, item_name |-> details[i].item_name,
         quantity |-> details[i].quantity]]

NewOrder(customer_name, customer_phone, room_number) ==
    [timestamp |-> now,
     customer_name |-> customer_name,
     customer_phone |-> customer_phone,
     room_number |-> room_number,
     status |-> "pending",
     admin_comment |-> NullText,
     confirmed_at |-> NULL,
     deleted_at |-> NULL]

\* ValidSubmission without the test of room_number
ValidSubmissionNoRoom(name, phone, room, form) ==
    /\ Strip(name) # <<>>
    /\ Strip(phone) # <<>>
    /\ OrderDetails(items_from_db, form) # <<>>

\* the check before the order is built
ValidSubmission(name, phone, room, form) ==
    /\ Strip(name) # <<>>
    /\ Strip(phone) # <<>>
    /\ Strip(room) # <<>>
    /\ OrderDetails(items_from_db, form) # <<>>

index_post(name, phone, room, form) ==
    LET req == SubmitRequest(name, phone, room, form)
        order_details == OrderDetails(items_from_db, form)
        oid == NextOrderId
    IN  IF ~ValidSubmission(name, phone, room, form)
        THEN /\ resp' = Response(req, 302, "warning")
             /\ UNCHANGED <<items, orders, order_items, now, admin_logged_in, threads>>
        ELSE \/ \* db.session.commit() raises: rollback
                /\ \E mail \in MailAfter(FALSE) :
                       resp' = [Response(req, 302, "error") EXCEPT !.mail = mail]
                /\ UNCHANGED <<items, orders, order_items, now, admin_logged_in, threads>>
             \/ /\ oid <= MaxOrderId
                /\ orders' = [i \in StoredOrderIds \cup {oid} |->
                       IF i = oid
                       THEN NewOrder(Strip(name), Strip(phone), Strip(room))
                       ELSE orders[i]]
                /\ order_items' = order_items \o NewOrderRows(oid, order_details)
                /\ \E mail \in MailAfter(TRUE) :
                       resp' = [Response(req, 302, "success") EXCEPT !.mail = mail]
                /\ UNCHANGED <<items, now, admin_logged_in, threads>>

\* a submission with its fields drawn from the given contacts and quantities
SubmitFrom(contacts, qtys) ==
    \E c \in contacts, form \in [DOMAIN items -> qtys] :
        index_post(c[1], c[2], c[3], form)

----------------------------------------------------------------------------
(* Admin session *)

PasswordInputs == {"", "wrong", "secret"}

check_password_hash(password) == password = "secret"

admin_login(password) ==
    LET req == [op |-> "login", password |-> password]
    IN  /\ IF password # "" /\ check_password_hash(password)
           THEN /\ admin_logged_in' = TRUE
                /\ resp' = Response(req, 302, "success")
           ELSE /\ admin_logged_in' = admin_logged_in
                /\ resp' = Response(req, 200, "error")
        /\ UNCHANGED <<items, orders, order_items, now, threads>>

admin_logout ==
    /\ admin_logged_in' = FALSE
    /\ resp' = Response([op |-> "logout"], 302, "success")
    /\ UNCHANGED <<items, orders, order_items, now, threads>>

Login == \E password \in PasswordInputs : admin_login(password)

\* @login_required left off: the handler is entered by anyone
LoginNotRequired(req, handler) == handler

\* @login_required: without the session flag the handler is not entered
login_required(req, handler) ==
    IF ~admin_logged_in
    THEN /\ resp' = Response(req, 302, "login_required")
         /\ UNCHANGED <<items, orders, order_items, now, admin_logged_in, threads>>
    ELSE handler

----------------------------------------------------------------------------
(* POST /api/order/confirm/<id> and POST /api/order/delete/<id> *)

CommentInputs == {Absent, <<" ", "k">>}

TransitionRequest(op, order_id, raw) ==
    [op |-> op, order_id |-> order_id, comment |-> raw]

\* data.get('comment', '').strip()
Comment(raw) == IF raw = Absent THEN <<>> ELSE Strip(raw)

\* TransitionGuard that answers a missing order as one already processed
TransitionGuardMissingConflict(order_id) ==
    IF order_id \notin StoredOrderIds THEN 400
    ELSE IF orders[order_id].status # "pending" THEN 400
    ELSE 0

\* TransitionGuard that turns away rejected orders only
TransitionGuardDeletedOnly(order_id) ==
    IF order_id \notin StoredOrderIds THEN 404
    ELSE IF orders[order_id].status = "deleted" THEN 400
    ELSE 0

\* the two guards after Order.query.get(order_id); 0: the handler goes on
TransitionGuard(order_id) ==
    IF order_id \notin StoredOrderIds THEN 404
    ELSE IF orders[order_id].status # "pending" THEN 400
    ELSE 0

\* the attributes api_confirm_order sets on the loaded order
ConfirmChanges(comment, ts) ==
    [status |-> "confirmed", stamp |-> "confirmed_at", at |-> ts, admin_comment |-> comment]

\* the attributes api_delete_order sets on the loaded order
DeleteChanges(comment, ts) ==
    [status |-> "deleted", stamp |-> "deleted_at", at |-> ts, admin_comment |-> comment]

\* the flush at commit: UPDATE "order" SET <the changed columns> WHERE id = ?
UpdateOrder(row, ch) ==
    [row EXCEPT !.status = ch.status,
                !.confirmed_at = IF ch.stamp = "confirmed_at" THEN ch.at ELSE @,
                !.deleted_at = IF ch.stamp = "deleted_at" THEN ch.at ELSE @,
                !.admin_comment = ch.admin_comment]

\* the body shared by the two handlers, run without interruption
transition(req, changes) ==
    LET code == TransitionGuard(req.order_id)
    IN  IF code # 0
        THEN /\ resp' = Response(req, code, "error")
             /\ UNCHANGED <<items, orders, order_items, now, admin_logged_in, threads>>
        ELSE \/ \* db.session.commit() raises: rollback
                /\ resp' = Response(req, 500, "error")
                /\ orders' = rollback(orders,
                       [orders EXCEPT ![req.order_id] = UpdateOrder(@, changes)])
                /\ UNCHANGED <<items, order_items, now, admin_logged_in, threads>>
             \/ /\ orders' = [orders EXCEPT ![req.order_id] = UpdateOrder(@, changes)]
                /\ resp' = Response(req, 200, "success")
                /\ UNCHANGED <<items, order_items, now, admin_logged_in, threads>>

api_confirm_order(order_id, raw) ==
    LET req == TransitionRequest("confirm", order_id, raw)
    IN  login_required(req, transition(req, ConfirmChanges(Comment(raw), now)))

api_delete_order(order_id, raw) ==
    LET req == TransitionRequest("reject", order_id, raw)
    IN  login_required(req, transition(req, DeleteChanges(Comment(raw), now)))

Confirm == \E id \in 1..MaxOrderId, raw \in CommentInputs : api_confirm_order(id, raw)

Reject == \E id \in 1..MaxOrderId, raw \in CommentInputs : api_delete_order(id, raw)

----------------------------------------------------------------------------
(* POST /api/orders/clean-deleted and GET /admin/orders/deleted *)

\* deleted_orders that takes every processed order
processed_orders == {i \in StoredOrderIds : orders[i].status # "pending"}

deleted_orders == {i \in StoredOrderIds : orders[i].status = "deleted"}

api_clean_deleted_orders ==
    LET req == [op |-> "purge"]
    IN  login_required(req,
            \/ \* db.session.commit() raises: rollback
               /\ resp' = Response(req, 500, "error")
               /\ UNCHANGED <<items, orders, order_items, now, admin_logged_in, threads>>
            \/ /\ orders' = [i \in StoredOrderIds \ deleted_orders |-> orders[i]]
               /\ order_items' = WithoutItemsOf(order_items, deleted_orders)
               /\ resp' = [Response(req, 200, "success")
                               EXCEPT !.count = Cardinality(deleted_orders)]
               /\ UNCHANGED <<items, now, admin_logged_in, threads>>)

\* the orders the page of rejected orders lists
admin_orders_deleted(tbl) == {i \in DOMAIN tbl : tbl[i].status = "deleted"}

----------------------------------------------------------------------------
(* PUT /api/order/edit/<id> *)

RECURSIVE SeqsUpTo(_, _)
SeqsUpTo(S, n) ==
    IF n = 0 THEN {<<>>}
    ELSE LET shorter == SeqsUpTo(S, n - 1)
         IN  shorter \cup {Append(s, x) : s \in {t \in shorter : Len(t) = n - 1}, x \in S}

\* EditGuard that turns away pending orders only
EditGuardPendingOnly(order_id) ==
    IF order_id \notin StoredOrderIds THEN 404
    ELSE IF orders[order_id].status = "pending" THEN 400
    ELSE 0

\* the two guards after Order.query.get(order_id); 0: the handler goes on
EditGuard(order_id) ==
    IF order_id \notin StoredOrderIds THEN 404
    ELSE IF orders[order_id].status # "confirmed" THEN 400
    ELSE 0

\* EditRows with the test quantity >= 0 in place of quantity > 0
RECURSIVE EditRowsKeepsZero(_, _)
EditRowsKeepsZero(order_id, entries) ==
    IF entries = <<>> THEN <<>>
    ELSE (IF Head(entries).quantity >= 0
          THEN <<[order_id |-> order_id, item_name |-> Head(entries).name,
                  quantity |-> Head(entries).quantity]>>
          ELSE <<>>) \o EditRowsKeepsZero(order_id, Tail(entries))

\* the loop over the request's items: the rows it adds to the session
RECURSIVE EditRows(_, _)
EditRows(order_id, entries) ==
    IF entries = <<>> THEN <<>>
    ELSE (IF Head(entries).quantity > 0
          THEN <<[order_id |-> order_id, item_name |-> Head(entries).name,
                  quantity |-> Head(entries).quantity]>>
          ELSE <<>>) \o EditRows(order_id, Tail(entries))

\* item_data['name'] raises KeyError for a kept entry that has no name
EditRaises(entries) ==
    \E i \in 1..Len(entries) : entries[i].quantity > 0 /\ ~entries[i].has_name

\* the rows added to the session before item_data['name'] raises
RECURSIVE EditRowsUntilRaise(_, _)
EditRowsUntilRaise(order_id, entries) ==
    IF entries = <<>> THEN <<>>
    ELSE IF Head(entries).quantity > 0 /\ ~Head(entries).has_name THEN <<>>
    ELSE (IF Head(entries).quantity > 0
          THEN <<[order_id |-> order_id, item_name |-> Head(entries).name,
                  quantity |-> Head(entries).quantity]>>
          ELSE <<>>) \o EditRowsUntilRaise(order_id, Tail(entries))

api_edit_confirmed_order(order_id, entries) ==
    LET req == [op |-> "edit", order_id |-> order_id, items |-> entries]
        code == EditGuard(order_id)
    IN  login_required(req,
            IF code # 0
            THEN /\ resp' = Response(req, code, "error")
                 /\ UNCHANGED <<items, orders, order_items, now, admin_logged_in, threads>>
            ELSE IF EditRaises(entries)
            THEN \* the bulk delete has run and the loop raises: rollback
                 /\ resp' = Response(req, 500, "error")
                 /\ order_items' = rollback(order_items,
                        WithoutItemsOf(order_items, {order_id})
                            \o EditRowsUntilRaise(order_id, entries))
                 /\ UNCHANGED <<items, orders, now, admin_logged_in, threads>>
            ELSE \/ \* db.session.commit() raises: rollback
                    /\ resp' = Response(req, 500, "error")
                    /\ order_items' = rollback(order_items,
                           WithoutItemsOf(order_items, {order_id})
                               \o EditRows(order_id, entries))
                    /\ UNCHANGED <<items, orders, now, admin_logged_in, threads>>
                 \/ /\ order_items' = WithoutItemsOf(order_items, {order_id})
                                          \o EditRows(order_id, entries)
                    /\ resp' = Response(req, 200, "success")
                    /\ UNCHANGED <<items, orders, now, admin_logged_in, threads>>)

\* an edit request whose item list is drawn from the given lists
EditFrom(lists) ==
    \E id \in 1..MaxOrderId, entries \in lists : api_edit_confirmed_order(id, entries)

----------------------------------------------------------------------------
(* GET /admin/reports/weekly *)

\* a query parameter: not sent, not a date, or the date of day `day`
NoDate == [present |-> FALSE, ok |-> FALSE, day |-> 0]
BadDate == [present |-> TRUE, ok |-> FALSE, day |-> 0]
Date(d) == [present |-> TRUE, ok |-> TRUE, day |-> d]

\* start_date and end_date after the try block: the first ValueError leaves
\* the remaining defaults in place
WeeklyWindow(start_param, end_param) ==
    LET end_default == now
        start_default == now - 7 * HalfSecondsPerDay
        start_raises == start_param.present /\ ~start_param.ok
        end_parsed == ~start_raises /\ end_param.present /\ end_param.ok
    IN  [start_date |-> IF start_param.present /\ start_param.ok
                        THEN Midnight(start_param.day) ELSE start_default,
         end_date |-> IF end_parsed THEN EndOfDay(end_param.day) ELSE end_default]

\* InWindow without the test of the status
InWindowAnyStatus(row, start_date, end_date) ==
    /\ row.confirmed_at # NULL
    /\ row.confirmed_at >= start_date
    /\ row.confirmed_at <= end_date

\* the filter of the query
InWindow(row, start_date, end_date) ==
    /\ row.status = "confirmed"
    /\ row.confirmed_at # NULL
    /\ row.confirmed_at >= start_date
    /\ row.confirmed_at <= end_date

RECURSIVE AscendingSeq(_)
AscendingSeq(S) ==
    IF S = {} THEN <<>>
    ELSE LET least == CHOOSE x \in S : \A y \in S : x <= y
         IN  <<least>> \o AscendingSeq(S \ {least})

\* Order.query.filter(...).all(): the ids of the selected orders, in rowid order
WeeklyOrders(tbl, start_date, end_date) ==
    AscendingSeq({i \in DOMAIN tbl : InWindow(tbl[i], start_date, end_date)})

\* AddToTotals with = in place of +=
AddToTotalsOverwrites(totals, row) ==
    IF \E k \in 1..Len(totals) : totals[k][1] = row.item_name
    THEN [k \in 1..Len(totals) |->
             IF totals[k][1] = row.item_name
             THEN <<totals[k][1], row.quantity>>
             ELSE totals[k]]
    ELSE Append(totals, <<row.item_name, row.quantity>>)

\* item_totals after one more OrderItem; a dict keeps its keys in insertion order
AddToTotals(totals, row) ==
    IF \E k \in 1..Len(totals) : totals[k][1] = row.item_name
    THEN [k \in 1..Len(totals) |->
             IF totals[k][1] = row.item_name
             THEN <<totals[k][1], totals[k][2] + row.quantity>>
             ELSE totals[k]]
    ELSE Append(totals, <<row.item_name, row.quantity>>)

RECURSIVE AddRows(_, _)
AddRows(totals, rows) ==
    IF rows = <<>> THEN totals
    ELSE AddRows(AddToTotals(totals, Head(rows)), Tail(rows))

RECURSIVE ItemTotals(_, _, _)
ItemTotals(totals, ids, rows) ==
    IF ids = <<>> THEN totals
    ELSE ItemTotals(AddRows(totals, ItemsOf(rows, Head(ids))), Tail(ids), rows)

\* InsertByTotal that puts an item before the items of equal total
InsertBeforeEqual(sorted, x) ==
    LET before == {k \in 1..Len(sorted) : sorted[k][2] > x[2]}
        n == IF before = {} THEN 0 ELSE Max(before)
    IN  SubSeq(sorted, 1, n) \o <<x>> \o SubSeq(sorted, n + 1, Len(sorted))

\* sorted(..., key=lambda x: x[1], reverse=True): stable, largest total first
InsertByTotal(sorted, x) ==
    LET before == {k \in 1..Len(sorted) : sorted[k][2] >= x[2]}
        n == IF before = {} THEN 0 ELSE Max(before)
    IN  SubSeq(sorted, 1, n) \o <<x>> \o SubSeq(sorted, n + 1, Len(sorted))

RECURSIVE SortedByTotal(_, _)
SortedByTotal(sorted, rest) ==
    IF rest = <<>> THEN sorted
    ELSE SortedByTotal(InsertByTotal(sorted, Head(rest)), Tail(rest))

\* ReportBetween with len() taken of the whole Order table
ReportBetweenCountsAll(tbl, rows, start_date, end_date) ==
    LET ids == WeeklyOrders(tbl, start_date, end_date)
    IN  [items |-> SortedByTotal(<<>>, ItemTotals(<<>>, ids, rows)),
         total_orders |-> Cardinality(DOMAIN tbl),
         start_date |-> start_date,
         end_date |-> end_date]

\* the orders selected and their items summed, for a window already computed
ReportBetween(tbl, rows, start_date, end_date) ==
    LET ids == WeeklyOrders(tbl, start_date, end_date)
    IN  [items |-> SortedByTotal(<<>>, ItemTotals(<<>>, ids, rows)),
         total_orders |-> Len(ids),
         start_date |-> start_date,
         end_date |-> end_date]

\* what the handler hands to the template
WeeklyReport(tbl, rows, start_param, end_param) ==
    LET w == WeeklyWindow(start_param, end_param)
    IN  ReportBetween(tbl, rows, w.start_date, w.end_date)

admin_reports_weekly(start_param, end_param) ==
    LET req == [op |-> "report", start_date |-> start_param, end_date |-> end_param]
    IN  login_required(req,
            /\ resp' = [Response(req, 200, "success")
                            EXCEPT !.report = WeeklyReport(orders, order_items,
                                                           start_param, end_param)]
            /\ UNCHANGED <<items, orders, order_items, now, admin_logged_in, threads>>)

\* a report request whose dates are drawn from the given days
ReportFrom(days) ==
    \E start_param, end_param \in {NoDate, BadDate} \cup {Date(d) : d \in days} :
        admin_reports_weekly(start_param, end_param)

----------------------------------------------------------------------------
(* confirm / reject requests served by concurrent workers.  Each worker has  *)
(* its own database session: the order is read (Order.query.get), changed   *)
(* in the session, and written by the UPDATE that commit() flushes.         *)

Workers == 1..NumWorkers

IdleThread ==
    [pc |-> "idle", op |-> "none", order_id |-> 0, comment |-> <<>>,
     at |-> NULL, code |-> 0]

ThreadChanges(t) ==
    IF t.op = "confirm" THEN ConfirmChanges(t.comment, t.at)
    ELSE DeleteChanges(t.comment, t.at)

\* lines 287-297 and 315-325: the login gate, the read and the two guards
ThreadLoad(w, op, order_id, raw) ==
    /\ threads[w].pc = "idle"
    /\ LET code == IF ~admin_logged_in THEN 302 ELSE TransitionGuard(order_id)
           t == [IdleThread EXCEPT !.op = op, !.order_id = order_id,
                                   !.comment = Comment(raw)]
       IN  threads' = [threads EXCEPT ![w] =
               IF code # 0 THEN [t EXCEPT !.pc = "done", !.code = code]
               ELSE [t EXCEPT !.pc = "loaded"]]
    /\ UNCHANGED <<items, orders, order_items, now, admin_logged_in, resp>>

\* lines 299-301 and 327-329: the attributes are set, the clock is read
ThreadAssign(w) ==
    /\ threads[w].pc = "loaded"
    /\ threads' = [threads EXCEPT ![w].pc = "dirty", ![w].at = now]
    /\ UNCHANGED <<items, orders, order_items, now, admin_logged_in, resp>>

\* lines 302 and 330: db.session.commit(); an UPDATE that matches no row
\* raises StaleDataError
ThreadCommit(w) ==
    /\ threads[w].pc = "dirty"
    /\ LET t == threads[w]
       IN  IF t.order_id \notin StoredOrderIds
           THEN /\ threads' = [threads EXCEPT ![w].pc = "done", ![w].code = 500]
                /\ UNCHANGED orders
           ELSE \/ /\ threads' = [threads EXCEPT ![w].pc = "done", ![w].code = 500]
                   /\ UNCHANGED orders
                \/ /\ orders' = [orders EXCEPT
                                    ![t.order_id] = UpdateOrder(@, ThreadChanges(t))]
                   /\ threads' = [threads EXCEPT ![w].pc = "done", ![w].code = 200]
    /\ UNCHANGED <<items, order_items, now, admin_logged_in, resp>>

\* the response is sent and the worker is free again
ThreadReturn(w) ==
    /\ threads[w].pc = "done"
    /\ threads' = [threads EXCEPT ![w] = IdleThread]
    /\ UNCHANGED <<items, orders, order_items, now, admin_logged_in, resp>>

\* a confirm or reject request arrives, its comment drawn from the given ones
LoadFrom(comments) ==
    \E w \in Workers, op \in {"confirm", "reject"}, id \in 1..MaxOrderId,
       raw \in comments : ThreadLoad(w, op, id, raw)

Assign == \E w \in Workers : ThreadAssign(w)

Commit == \E w \in Workers : ThreadCommit(w)

Return == \E w \in Workers : ThreadReturn(w)

----------------------------------------------------------------------------
(* The catalog: POST /api/item/add, POST /api/item/bulk_add,                *)
(* DELETE /api/item/delete/<id>, PUT /api/item/edit/<id>                    *)

\* the Item.name a stripped text is stored as
NameOfText(t) ==
    CASE t = <<"T", "e", "a">> -> "Tea"
      [] t = <<"W", "a", "t", "e", "r">> -> "Water"
      [] t = <<"w", "a", "t", "e", "r">> -> "water"

\* data.get('name', '').strip()
ItemNameText(raw) == IF raw = Absent THEN <<>> ELSE Strip(raw)

\* Item.query.filter_by(name=name).first(): exact comparison
ItemNamed(catalog, name) == {i \in DOMAIN catalog : catalog[i] = name}

NextItemId(catalog) == IF DOMAIN catalog = {} THEN 1 ELSE Max(DOMAIN catalog) + 1

WithItem(catalog, name) ==
    [i \in DOMAIN catalog \cup {NextItemId(catalog)} |->
        IF i \in DOMAIN catalog THEN catalog[i] ELSE name]

\* OrderItemsAfterRename for an OrderItem that followed the Item's name
OrderItemsRenamedWithItem(rows, old_name, new_name) ==
    [k \in 1..Len(rows) |->
        IF rows[k].item_name = old_name
        THEN [rows[k] EXCEPT !.item_name = new_name]
        ELSE rows[k]]

\* OrderItem.item_name is a column of its own, with no foreign key to Item:
\* the rows are what they were whatever becomes of the Item
OrderItemsAfterRename(rows, old_name, new_name) == rows

api_add_item(raw) ==
    LET req == [op |-> "item_add", name |-> raw]
        name == ItemNameText(raw)
    IN  login_required(req,
            IF name = <<>> \/ ItemNamed(items, NameOfText(name)) # {}
            THEN /\ resp' = Response(req, 400, "error")
                 /\ UNCHANGED <<items, orders, order_items, now, admin_logged_in, threads>>
            ELSE \/ \* db.session.commit() raises: rollback
                    /\ resp' = Response(req, 500, "error")
                    /\ items' = rollback(items, WithItem(items, NameOfText(name)))
                    /\ UNCHANGED <<orders, order_items, now, admin_logged_in, threads>>
                 \/ /\ NextItemId(items) <= MaxItemId
                    /\ items' = WithItem(items, NameOfText(name))
                    /\ resp' = Response(req, 200, "success")
                    /\ UNCHANGED <<orders, order_items, now, admin_logged_in, threads>>)

\* item_names: the stripped lines that are not blank
RECURSIVE BulkNames(_)
BulkNames(lines) ==
    IF lines = <<>> THEN <<>>
    ELSE (IF Strip(Head(lines)) # <<>> THEN <<NameOfText(Strip(Head(lines)))>> ELSE <<>>)
             \o BulkNames(Tail(lines))

\* the loop over item_names: a name is added unless the catalog, with the
\* names added so far, holds it
RECURSIVE BulkAdded(_, _)
BulkAdded(catalog, names) ==
    IF names = <<>> THEN catalog
    ELSE BulkAdded(IF ItemNamed(catalog, Head(names)) = {}
                   THEN WithItem(catalog, Head(names)) ELSE catalog,
                   Tail(names))

api_bulk_add_items(lines) ==
    LET req == [op |-> "item_bulk", lines |-> lines]
        item_names == BulkNames(lines)
        added == BulkAdded(items, item_names)
    IN  login_required(req,
            IF item_names = <<>>
            THEN /\ resp' = Response(req, 400, "error")
                 /\ UNCHANGED <<items, orders, order_items, now, admin_logged_in, threads>>
            ELSE \/ \* db.session.commit() raises: rollback
                    /\ resp' = Response(req, 500, "error")
                    /\ items' = rollback(items, added)
                    /\ UNCHANGED <<orders, order_items, now, admin_logged_in, threads>>
                 \/ /\ DOMAIN added \subseteq 1..MaxItemId
                    /\ items' = added
                    /\ resp' = [Response(req, 200, "success") EXCEPT
                                    !.count = Cardinality(DOMAIN added \ DOMAIN items)]
                    /\ UNCHANGED <<orders, order_items, now, admin_logged_in, threads>>)

api_delete_item(item_id) ==
    LET req == [op |-> "item_delete", item_id |-> item_id]
    IN  login_required(req,
            IF item_id \notin DOMAIN items
            THEN /\ resp' = Response(req, 404, "error")
                 /\ UNCHANGED <<items, orders, order_items, now, admin_logged_in, threads>>
            ELSE \/ \* db.session.commit() raises: rollback
                    /\ resp' = Response(req, 500, "error")
                    /\ items' = rollback(items, [i \in DOMAIN items \ {item_id} |-> items[i]])
                    /\ UNCHANGED <<orders, order_items, now, admin_logged_in, threads>>
                 \/ /\ items' = [i \in DOMAIN items \ {item_id} |-> items[i]]
                    /\ resp' = Response(req, 200, "success")
                    /\ UNCHANGED <<orders, order_items, now, admin_logged_in, threads>>)

api_edit_item(item_id, raw) ==
    LET req == [op |-> "item_edit", item_id |-> item_id, name |-> raw]
        new_name == ItemNameText(raw)
    IN  login_required(req,
            IF new_name = <<>>
            THEN /\ resp' = Response(req, 400, "error")
                 /\ UNCHANGED <<items, orders, order_items, now, admin_logged_in, threads>>
            ELSE IF item_id \notin DOMAIN items
            THEN /\ resp' = Response(req, 404, "error")
                 /\ UNCHANGED <<items, orders, order_items, now, admin_logged_in, threads>>
            ELSE IF ItemNamed(items, NameOfText(new_name)) \ {item_id} # {}
            THEN /\ resp' = Response(req, 400, "error")
                 /\ UNCHANGED <<items, orders, order_items, now, admin_logged_in, threads>>
            ELSE \/ \* db.session.commit() raises: rollback
                    /\ resp' = Response(req, 500, "error")
                    /\ items' = rollback(items, [items EXCEPT ![item_id] = NameOfText(new_name)])
                    /\ UNCHANGED <<orders, order_items, now, admin_logged_in, threads>>
                 \/ /\ items' = [items EXCEPT ![item_id] = NameOfText(new_name)]
                    /\ order_items' = OrderItemsAfterRename(order_items, items[item_id],
                                                            NameOfText(new_name))
                    /\ resp' = Response(req, 200, "success")
                    /\ UNCHANGED <<orders, now, admin_logged_in, threads>>)

----------------------------------------------------------------------------
(* analyze_orders.py: the weekly summary of orders.csv *)

\* day 0 of the calendar is a Monday: 0 is Monday, 6 is Sunday
Weekday(d) == d % 7

\* a timestamp as the file holds it: the date and the time of day
CsvTimestamp(t) ==
    [date |-> t \div HalfSecondsPerDay, time |-> t % HalfSecondsPerDay]

RECURSIVE DecimalText(_)
DecimalText(n) ==
    LET digit == CHOOSE c \in Digits : DigitVal(c) = n % 10
    IN  IF n < 10 THEN <<digit>> ELSE DecimalText(n \div 10) \o <<digit>>

\* orders.csv: one line per ordered item, under the columns the script reads
orders_csv ==
    [k \in 1..Len(order_items) |->
        [timestamp |-> CsvTimestamp(orders[order_items[k].order_id].timestamp),
         item_name |-> order_items[k].item_name,
         quantity |-> DecimalText(order_items[k].quantity)]]

to_datetime(ts) == ts.date * HalfSecondsPerDay + ts.time

to_numeric(q) == DecimalVal(q)

\* df after the two conversions
DataFrame(csv) ==
    [k \in 1..Len(csv) |->
        [timestamp |-> to_datetime(csv[k].timestamp),
         item_name |-> csv[k].item_name,
         quantity |-> to_numeric(csv[k].quantity)]]

Min(S) == CHOOSE x \in S : \A y \in S : x <= y

\* the bin edges of freq='W' (W-SUN): the Sundays, at midnight, from the week
\* of the first row to the week after the last row's
WeekEdges(df) ==
    LET days == {df[k].timestamp \div HalfSecondsPerDay : k \in 1..Len(df)}
    IN  {Midnight(d) : d \in {e \in Min(days)..(Max(days) + 7) : Weekday(e) = 6}}

\* bins whose right edge is the midnight itself: a row later on the Sunday
\* falls into the next week
WeekBinAtMidnight(t, edges) ==
    Min({e \in edges : t <= e})

\* closed='right', label='right': the bins are closed on the right at the end
\* of the edge's day and labelled by the edge
WeekBin(t, edges) ==
    Min({e \in edges : t <= e + HalfSecondsPerDay - 1})

\* the keys of groupby(['item_name', Grouper(freq='W')]): the groups observed
GroupKeys(df) ==
    {<<df[k].item_name, WeekBin(df[k].timestamp, WeekEdges(df))>> : k \in 1..Len(df)}

RECURSIVE GroupSum(_, _, _)
GroupSum(df, key, k) ==
    IF k > Len(df) THEN 0
    ELSE (IF <<df[k].item_name, WeekBin(df[k].timestamp, WeekEdges(df))>> = key
          THEN df[k].quantity ELSE 0) + GroupSum(df, key, k + 1)

\* groups ordered by week first, then by item name
GroupBeforeByWeek(a, b) ==
    \/ a[2] < b[2]
    \/ a[2] = b[2] /\ NameRank(a[1]) <= NameRank(b[1])

\* the group keys are sorted in the order the keys are given to groupby:
\* by item_name first, then by week
GroupBefore(a, b) ==
    \/ NameRank(a[1]) < NameRank(b[1])
    \/ a[1] = b[1] /\ a[2] <= b[2]

RECURSIVE SortedGroups(_)
SortedGroups(S) ==
    IF S = {} THEN <<>>
    ELSE LET first == CHOOSE a \in S : \A b \in S : GroupBefore(a, b)
         IN  <<first>> \o SortedGroups(S \ {first})

\* df.groupby([...])['quantity'].sum().reset_index()
weekly_summary(df) ==
    LET keys == SortedGroups(GroupKeys(df))
    IN  [g \in 1..Len(keys) |->
            [item_name |-> keys[g][1], timestamp |-> keys[g][2],
             quantity |-> GroupSum(df, keys[g], 1)]]

RECURSIVE WeekSum(_, _, _)
WeekSum(df, week, k) ==
    IF k > Len(df) THEN 0
    ELSE (IF WeekBin(df[k].timestamp, WeekEdges(df)) = week
          THEN df[k].quantity ELSE 0) + WeekSum(df, week, k + 1)

RECURSIVE WeeksFrom(_, _, _)
WeeksFrom(df, week, last) ==
    IF week > last THEN <<>>
    ELSE <<[timestamp |-> week, quantity |-> WeekSum(df, week, 1)]>>
             \o WeeksFrom(df, week + 7 * HalfSecondsPerDay, last)

\* df.resample('W', on='timestamp')['quantity'].sum(): every week from the
\* first row's to the last row's, the weeks without rows with a sum of 0
total_weekly_summary(df) ==
    IF Len(df) = 0 THEN <<>>
    ELSE LET weeks == {WeekBin(df[k].timestamp, WeekEdges(df)) : k \in 1..Len(df)}
         IN  WeeksFrom(df, Min(weeks), Max(weeks))

\* the script computes both summaries and prints the second
analyze_weekly_orders ==
    LET df == DataFrame(orders_csv)
    IN  /\ resp' = [Response([op |-> "analyze"], 0,
                             IF Len(df) = 0 THEN "empty" ELSE "printed")
                       EXCEPT !.report = [weekly_summary |-> weekly_summary(df),
                                          total_weekly_summary |-> total_weekly_summary(df)]]
        /\ UNCHANGED <<items, orders, order_items, now, admin_logged_in, threads>>

----------------------------------------------------------------------------
(* migrate_database.py: the columns the order table gained.  A row of the  *)
(* table is a record whose fields are the columns of the table.            *)

NullStatus == "<NULL>"          \* a NULL status column

NewColumns == <<"status", "admin_comment", "confirmed_at", "deleted_at">>

\* PRAGMA table_info('order'): the names of the columns
table_info(tbl) == DOMAIN tbl[CHOOSE i \in DOMAIN tbl : TRUE]

migrations_needed(columns) == SelectSeq(NewColumns, LAMBDA c : c \notin columns)

\* what ADD COLUMN gives the rows already stored: the DEFAULT, or NULL
ColumnDefault(c) ==
    CASE c = "status" -> "pending"
      [] c = "admin_comment" -> NullText
      [] OTHER -> NULL

\* ALTER TABLE 'order' ADD COLUMN c
AddColumn(tbl, c) == [i \in DOMAIN tbl |-> (c :> ColumnDefault(c)) @@ tbl[i]]

RECURSIVE AddColumns(_, _)
AddColumns(tbl, cs) ==
    IF cs = <<>> THEN tbl ELSE AddColumns(AddColumn(tbl, Head(cs)), Tail(cs))

\* an UPDATE without its WHERE clause
UpdateEveryStatus(tbl) == [i \in DOMAIN tbl |-> [tbl[i] EXCEPT !.status = "pending"]]

\* UPDATE 'order' SET status = 'pending' WHERE status IS NULL
UpdateNullStatus(tbl) ==
    [i \in DOMAIN tbl |->
        IF tbl[i].status = NullStatus THEN [tbl[i] EXCEPT !.status = "pending"]
        ELSE tbl[i]]

\* one run of the script.  A run that fails after k of its ALTER TABLE
\* statements rolls back; whether the columns already added go with the
\* rollback depends on how the sqlite3 module wraps DDL in transactions.
migrate_database ==
    LET req == [op |-> "migrate"]
        needed == migrations_needed(table_info(orders))
    IN  IF needed = <<>>
        THEN /\ resp' = Response(req, 0, "up_to_date")
             /\ UNCHANGED <<items, orders, order_items, now, admin_logged_in, threads>>
        ELSE \/ /\ orders' = UpdateNullStatus(AddColumns(orders, needed))
                /\ resp' = [Response(req, 0, "completed") EXCEPT !.count = Len(needed)]
                /\ UNCHANGED <<items, order_items, now, admin_logged_in, threads>>
             \/ \E k \in 0..Len(needed) :
                    LET added == AddColumns(orders, SubSeq(needed, 1, k))
                    IN  /\ orders' \in {rollback(orders, added), added}
                        /\ resp' = Response(req, 1, "failed")
                        /\ UNCHANGED <<items, order_items, now, admin_logged_in, threads>>

----------------------------------------------------------------------------
(* The request that a response answers, served again: the routing table *)

Serve(req) ==
    CASE req.op = "submit" ->
            index_post(req.customer_name, req.customer_phone, req.room_number, req.form)
      [] req.op = "login" -> admin_login(req.password)
      [] req.op = "logout" -> admin_logout
      [] req.op = "confirm" -> api_confirm_order(req.order_id, req.comment)
      [] req.op = "reject" -> api_delete_order(req.order_id, req.comment)
      [] req.op = "purge" -> api_clean_deleted_orders
      [] req.op = "edit" -> api_edit_confirmed_order(req.order_id, req.items)
      [] req.op = "report" -> admin_reports_weekly(req.start_date, req.end_date)
      [] req.op = "item_add" -> api_add_item(req.name)
      [] req.op = "item_bulk" -> api_bulk_add_items(req.lines)
      [] req.op = "item_delete" -> api_delete_item(req.item_id)
      [] req.op = "item_edit" -> api_edit_item(req.item_id, req.name)
      [] req.op = "analyze" -> analyze_weekly_orders
      [] req.op = "migrate" -> migrate_database
      [] OTHER -> FALSE

----------------------------------------------------------------------------
(* Inputs of the requests *)

\* a well-formed contact, padded with blanks, and one with a blank room number
BasicContacts ==
    { << <<" ", "A", " ">>, <<"5">>, <<"7", " ">> >>,
      << <<" ", "A", " ">>, <<"5">>, <<" ", " ">> >> }

\* and the other ways of leaving a field empty
ContactInputs ==
    BasicContacts \cup
    { << <<" ">>, <<"5">>, <<"7", " ">> >>,
      << <<" ", "A", " ">>, <<>>, <<"7", " ">> >> }

BasicQty == {Absent, <<" ", "2">>}

QtyInputs == BasicQty \cup {<<"-", "1">>, <<"x">>, <<"1", ".", "5">>, <<"1">>}

\* one element of the JSON list 'items'; has_name = FALSE: no 'name' key
Entry(name, quantity) == [name |-> name, quantity |-> quantity, has_name |-> TRUE]

BasicEdits == SeqsUpTo({Entry("water", 1)}, MaxEditLen) \cup {<<Entry("Water", 0)>>}

EditEntries ==
    {Entry(n, q) : n \in {"Water", "water"}, q \in 1..MaxQty}
        \cup {Entry("Water", 0), Entry("Water", 0 - 1),
              [name |-> "Water", quantity |-> 1, has_name |-> FALSE]}

EditInputs == SeqsUpTo(EditEntries, MaxEditLen)

ReportDays == {0, 1}

\* names sent to the catalog endpoints: none, blank, padded, and two that
\* differ in case only
ItemNameInputs ==
    {Absent, <<" ">>, <<" ", "T", "e", "a", " ">>,
     <<"W", "a", "t", "e", "r">>, <<"w", "a", "t", "e", "r">>}

\* the lines of items_text
BulkLineInputs == {<<" ">>, <<"T", "e", "a", " ">>, <<"w", "a", "t", "e", "r">>}

BulkInputs == SeqsUpTo(BulkLineInputs, MaxBulkLines)

----------------------------------------------------------------------------
(* The application, one request at a time *)

Init ==
    /\ items = (1 :> "Water") @@ (2 :> "water")
    /\ orders = <<>>
    /\ order_items = <<>>
    /\ now = Instant(1)
    /\ admin_logged_in = FALSE
    /\ threads = [w \in Workers |-> IdleThread]
    /\ resp = Response(NoRequest, 0, "")

Submit == SubmitFrom(BasicContacts, BasicQty)

Edit == EditFrom(BasicEdits)

Next ==
    \/ Tick
    \/ Submit
    \/ Login
    \/ admin_logout
    \/ Confirm
    \/ Reject
    \/ api_clean_deleted_orders
    \/ Edit

Spec == Init /\ [][Next]_vars

----------------------------------------------------------------------------
(* The order form with every kind of field value *)

SubmitAny == SubmitFrom(ContactInputs, QtyInputs)

NextSubmit == SubmitAny

SpecSubmit == Init /\ [][NextSubmit]_vars

----------------------------------------------------------------------------
(* The edit endpoint with every kind of item list *)

EditAny == EditFrom(EditInputs)

NextEdit ==
    \/ Submit
    \/ Login
    \/ Confirm
    \/ Reject
    \/ EditAny

SpecEdit == Init /\ [][NextEdit]_vars

----------------------------------------------------------------------------
(* Confirm and reject requests served concurrently *)

\* every order id holds a submitted order and the admin has logged in
InitConc ==
    /\ items = (1 :> "Water") @@ (2 :> "water")
    /\ orders = [i \in 1..MaxOrderId |->
                    [timestamp |-> Instant(1),
                     customer_name |-> <<"A">>,
                     customer_phone |-> <<"5">>,
                     room_number |-> <<"7">>,
                     status |-> "pending",
                     admin_comment |-> NullText,
                     confirmed_at |-> NULL,
                     deleted_at |-> NULL]]
    /\ order_items = [i \in 1..MaxOrderId |->
                         [order_id |-> i, item_name |-> "Water", quantity |-> 2]]
    /\ now = Instant(1)
    /\ admin_logged_in = TRUE
    /\ threads = [w \in Workers |-> IdleThread]
    /\ resp = Response([op |-> "login", password |-> "secret"], 302, "success")

Load == LoadFrom(CommentInputs)

NextConc ==
    \/ Tick
    \/ Load
    \/ Assign
    \/ Commit
    \/ Return

SpecConc == InitConc /\ [][NextConc]_vars

----------------------------------------------------------------------------
(* The weekly report over the order tables the handlers can leave behind *)

ReportTimes == {Instant(k) : k \in 1..MaxReportStep}

Row(status, confirmed_at, deleted_at) ==
    [timestamp |-> Instant(1),
     customer_name |-> <<"A">>,
     customer_phone |-> <<"5">>,
     room_number |-> <<"7">>,
     status |-> status,
     admin_comment |-> IF status = "pending" THEN NullText ELSE <<>>,
     confirmed_at |-> confirmed_at,
     deleted_at |-> deleted_at]

\* a pending order; a confirmed order; a rejected order; and the rows left by
\* a confirm and a reject that were served together
ReportRows ==
    {Row("pending", NULL, NULL)}
        \cup {Row("confirmed", t, NULL) : t \in ReportTimes}
        \cup {Row("deleted", NULL, Instant(1))}
        \cup {Row("deleted", t, t) : t \in ReportTimes}

Line(name, quantity) == [item_name |-> name, quantity |-> quantity]

SubmittedLines == {<<Line("Water", 2)>>, <<Line("Water", 2), Line("water", 2)>>}

EditedLines ==
    {<<Line("water", 1)>>, <<Line("Water", 1), Line("Water", 1)>>,
     <<Line("water", 1), Line("Water", 1)>>}

LinesFor(row) ==
    IF row.status = "pending" THEN SubmittedLines ELSE SubmittedLines \cup EditedLines

RECURSIVE RowsOfOrders(_, _, _)
RowsOfOrders(lines, i, n) ==
    IF i > n THEN <<>>
    ELSE NewOrderRows(i, lines[i]) \o RowsOfOrders(lines, i + 1, n)

InitReport ==
    /\ items = (1 :> "Water") @@ (2 :> "water")
    /\ \E n \in 1..MaxOrderId :
         /\ orders \in [1..n -> ReportRows]
         /\ \E lines \in [1..n -> SubmittedLines \cup EditedLines] :
              /\ \A i \in 1..n : lines[i] \in LinesFor(orders[i])
              /\ order_items = RowsOfOrders(lines, 1, n)
    /\ now = Instant(MaxReportStep + 1)
    /\ admin_logged_in = FALSE
    /\ threads = [w \in Workers |-> IdleThread]
    /\ resp = Response(NoRequest, 0, "")

Report == ReportFrom(ReportDays)

NextReport ==
    \/ Login
    \/ Report

SpecReport == InitReport /\ [][NextReport]_vars

----------------------------------------------------------------------------
(* The catalog changing under stored orders *)

\* order 1 was submitted from the first catalog and confirmed
InitCatalog ==
    /\ items = (1 :> "Water") @@ (2 :> "water")
    /\ orders = (1 :> Row("confirmed", Instant(1), NULL))
    /\ order_items = NewOrderRows(1, <<Line("Water", 2), Line("water", 2)>>)
    /\ now = Instant(1)
    /\ admin_logged_in = FALSE
    /\ threads = [w \in Workers |-> IdleThread]
    /\ resp = Response(NoRequest, 0, "")

AddItem == \E raw \in ItemNameInputs : api_add_item(raw)

BulkAddItems == \E lines \in BulkInputs : api_bulk_add_items(lines)

DeleteItem == \E id \in 1..MaxItemId : api_delete_item(id)

EditItem == \E id \in 1..MaxItemId, raw \in ItemNameInputs : api_edit_item(id, raw)

NextCatalog ==
    \/ Login
    \/ Submit
    \/ AddItem
    \/ BulkAddItems
    \/ DeleteItem
    \/ EditItem

SpecCatalog == InitCatalog /\ [][NextCatalog]_vars

----------------------------------------------------------------------------
(* The weekly summary of a file of orders placed over two weeks *)

\* Saturday of the first week, the midnight that begins its Sunday, the last
\* half second of that Sunday, and the Monday after it
WeeklyTimes == {EndOfDay(5), Midnight(6), EndOfDay(6) + 1, Midnight(7)}

WeeklyRows ==
    UNION {{[Row("pending", NULL, NULL) EXCEPT !.timestamp = t],
            [Row("deleted", NULL, t) EXCEPT !.timestamp = t]}
              \cup {[Row("confirmed", c, NULL) EXCEPT !.timestamp = t] :
                       c \in {u \in WeeklyTimes : u >= t}}
           : t \in WeeklyTimes}

InitWeekly ==
    /\ items = (1 :> "Water") @@ (2 :> "water")
    /\ \E n \in 1..MaxOrderId :
         /\ orders \in [1..n -> WeeklyRows]
         /\ \E lines \in [1..n -> SubmittedLines \cup EditedLines] :
              /\ \A i \in 1..n : lines[i] \in LinesFor(orders[i])
              /\ order_items = RowsOfOrders(lines, 1, n)
    /\ now = Midnight(8)
    /\ admin_logged_in = FALSE
    /\ threads = [w \in Workers |-> IdleThread]
    /\ resp = Response(NoRequest, 0, "")

NextWeekly == analyze_weekly_orders

SpecWeekly == InitWeekly /\ [][NextWeekly]_vars

----------------------------------------------------------------------------
(* Every handler, behind the login gate or not, with and without a session; *)
(* each is sent one well-formed request                                     *)

AdminSubmit == SubmitFrom({<< <<" ", "A", " ">>, <<"5">>, <<"7", " ">> >>}, {<<" ", "2">>})

AdminConfirm == \E id \in 1..MaxOrderId : api_confirm_order(id, Absent)

AdminReject == \E id \in 1..MaxOrderId : api_delete_order(id, Absent)

AdminEdit == EditFrom({<<Entry("water", 1)>>})

AdminReport == admin_reports_weekly(NoDate, NoDate)

AdminAddItem == api_add_item(<<" ", "T", "e", "a", " ">>)

AdminBulkAddItems == api_bulk_add_items(<< <<" ", "T", "e", "a", " ">> >>)

AdminDeleteItem == \E id \in 1..MaxItemId : api_delete_item(id)

AdminEditItem == \E id \in 1..MaxItemId : api_edit_item(id, <<" ", "T", "e", "a", " ">>)

NextAdmin ==
    \/ AdminSubmit
    \/ Login
    \/ admin_logout
    \/ AdminConfirm
    \/ AdminReject
    \/ api_clean_deleted_orders
    \/ AdminEdit
    \/ AdminReport
    \/ AdminAddItem
    \/ AdminBulkAddItems
    \/ AdminDeleteItem
    \/ AdminEditItem

SpecAdmin == Init /\ [][NextAdmin]_vars

----------------------------------------------------------------------------
(* The migration run, again and again, on an order table of an older schema *)

\* the values a column of an older table can hold
ColumnValues(c) ==
    CASE c = "status" -> {NullStatus, "pending", "confirmed", "deleted"}
      [] c = "admin_comment" -> {NullText, <<"k">>}
      [] OTHER -> {NULL, Instant(1)}

\* the rows of a table that has the columns cols of the new ones
LegacyRows(cols) ==
    LET base == [timestamp |-> Instant(1), customer_name |-> <<"A">>,
                 customer_phone |-> <<"5">>, room_number |-> <<"7">>]
    IN  {[c \in cols |-> CASE c = "status" -> s
                            [] c = "admin_comment" -> a
                            [] c = "confirmed_at" -> ca
                            [] OTHER -> d] @@ base :
            s \in ColumnValues("status"), a \in ColumnValues("admin_comment"),
            ca \in ColumnValues("confirmed_at"), d \in ColumnValues("deleted_at")}

InitMigrate ==
    /\ items = (1 :> "Water") @@ (2 :> "water")
    /\ \E n \in 1..MaxOrderId, cols \in SUBSET {NewColumns[c] : c \in 1..Len(NewColumns)} :
         orders \in [1..n -> LegacyRows(cols)]
    /\ order_items = <<>>
    /\ now = Instant(1)
    /\ admin_logged_in = FALSE
    /\ threads = [w \in Workers |-> IdleThread]
    /\ resp = Response(NoRequest, 0, "")

NextMigrate == migrate_database

SpecMigrate == InitMigrate /\ [][NextMigrate]_vars

----------------------------------------------------------------------------
(* What the requests mean, written down without reference to the handlers *)

\* a field is blank when it holds nothing but white space
Blank(s) == \A i \in 1..Len(s) : s[i] \in {" ", "\t", "\n"}

\* the integer a quantity field denotes, if it denotes one
QtyMeaning(q) ==
    CASE q = <<" ", "2">> -> [integer |-> TRUE, value |-> 2]
      [] q = <<"1">> -> [integer |-> TRUE, value |-> 1]
      [] q = <<"-", "1">> -> [integer |-> TRUE, value |-> 0 - 1]
      [] q = <<"1", ".", "5">> -> [integer |-> FALSE, value |-> 0]
      [] q = <<"x">> -> [integer |-> FALSE, value |-> 0]
      [] q = Absent -> [integer |-> FALSE, value |-> 0]

Wanted(form) ==
    {i \in DOMAIN form : QtyMeaning(form[i]).integer /\ QtyMeaning(form[i]).value > 0}

WantedPairs(form) == {<<items[i], QtyMeaning(form[i]).value>> : i \in Wanted(form)}

PairsOf(rows) == {<<rows[k].item_name, rows[k].quantity>> : k \in 1..Len(rows)}

BlankContact(req) ==
    Blank(req.customer_name) \/ Blank(req.customer_phone) \/ Blank(req.room_number)

\* the step serves the request that resp' records
Served(op) == resp'.req.op = op /\ Serve(resp'.req)

RECURSIVE SumQty(_, _)
SumQty(rows, K) ==
    IF K = {} THEN 0
    ELSE LET k == CHOOSE x \in K : TRUE
         IN  rows[k].quantity + SumQty(rows, K \ {k})

----------------------------------------------------------------------------
(* Claims *)

\* C1: a submission with three non-blank contact fields and at least one
\* integer quantity > 0, whose commit succeeds, creates exactly one order: it
\* is pending, confirmed_at and deleted_at are unset, its items are exactly the
\* (catalog name, quantity) pairs with an integer quantity > 0, the other
\* entries are dropped, and the orders stored before are untouched.
C1_SubmitCreatesOrder ==
    [][(/\ Served("submit")
        /\ ~BlankContact(resp'.req)
        /\ Wanted(resp'.req.form) # {}
        /\ resp'.msg # "error")
       => \E oid \in (DOMAIN orders') \ DOMAIN orders :
             /\ DOMAIN orders' = DOMAIN orders \cup {oid}
             /\ \A i \in DOMAIN orders :
                    /\ orders'[i] = orders[i]
                    /\ ItemsOf(order_items', i) = ItemsOf(order_items, i)
             /\ orders'[oid].status = "pending"
             /\ orders'[oid].confirmed_at = NULL
             /\ orders'[oid].deleted_at = NULL
             /\ PairsOf(ItemsOf(order_items', oid)) = WantedPairs(resp'.req.form)
             /\ Len(ItemsOf(order_items', oid)) = Cardinality(WantedPairs(resp'.req.form))
             /\ resp'.msg = "success"]_vars

\* a second order was just created from a form with one quantity > 0 and one
\* quantity that is no integer
C1_Witness ==
    /\ resp.req.op = "submit" /\ resp.msg = "success"
    /\ DOMAIN orders = {1, 2}
    /\ orders[2].status = "pending"
    /\ resp.req.form[1] = <<"1", ".", "5">>
    /\ resp.req.form[2] = <<" ", "2">>
    /\ ItemsOf(order_items, 2) = <<[order_id |-> 2, item_name |-> "water", quantity |-> 2]>>

\* C5: a submission with a blank contact field, or with no integer quantity
\* > 0, is answered with the validation warning, stores no order and no order
\* item, and attempts no notification.
C5_InvalidSubmitRejected ==
    [][(/\ Served("submit")
        /\ (BlankContact(resp'.req) \/ Wanted(resp'.req.form) = {}))
       => /\ resp'.msg = "warning"
          /\ resp'.mail = "none"
          /\ orders' = orders
          /\ order_items' = order_items]_vars

\* a form with a quantity > 0 and a blank room number was refused while an
\* order was stored
C5_Witness ==
    /\ resp.req.op = "submit" /\ resp.msg = "warning" /\ resp.mail = "none"
    /\ Blank(resp.req.room_number) /\ ~Blank(resp.req.customer_name)
    /\ Wanted(resp.req.form) # {}
    /\ DOMAIN orders = {1}

\* C3: in a logged-in session, confirm or reject of a stored order that is
\* not pending is answered 400 (already processed) and leaves the order's
\* status, confirmed_at, deleted_at and admin_comment as they were.
C3_ProcessedOrderConflict ==
    [][(/\ (Served("confirm") \/ Served("reject"))
        /\ admin_logged_in
        /\ resp'.req.order_id \in DOMAIN orders
        /\ orders[resp'.req.order_id].status # "pending")
       => LET id == resp'.req.order_id
          IN  /\ resp'.code = 400
              /\ id \in DOMAIN orders'
              /\ orders'[id].status = orders[id].status
              /\ orders'[id].confirmed_at = orders[id].confirmed_at
              /\ orders'[id].deleted_at = orders[id].deleted_at
              /\ orders'[id].admin_comment = orders[id].admin_comment]_vars

\* a reject with a comment was refused on a confirmed order that keeps its
\* empty comment
C3_Witness ==
    /\ resp.req.op = "reject" /\ resp.code = 400
    /\ resp.req.order_id \in DOMAIN orders
    /\ orders[resp.req.order_id].status = "confirmed"
    /\ orders[resp.req.order_id].admin_comment = <<>>
    /\ Comment(resp.req.comment) = <<"k">>

\* C6: in a logged-in session, an edit of a stored order that is pending or
\* deleted is answered 400 and leaves every order and every order item as it
\* was.
C6_EditNeedsConfirmed ==
    [][(/\ Served("edit")
        /\ admin_logged_in
        /\ resp'.req.order_id \in DOMAIN orders
        /\ orders[resp'.req.order_id].status \in {"pending", "deleted"})
       => /\ resp'.code = 400
          /\ order_items' = order_items
          /\ orders' = orders]_vars

\* an edit with an item of quantity 1 was refused on a rejected order
C6_Witness ==
    /\ resp.req.op = "edit" /\ resp.code = 400
    /\ resp.req.order_id \in DOMAIN orders
    /\ orders[resp.req.order_id].status = "deleted"
    /\ \E k \in 1..Len(resp.req.items) : resp.req.items[k].quantity > 0
    /\ ItemsOf(order_items, resp.req.order_id) # <<>>

\* C7: after a successful edit of a confirmed order its items are exactly the
\* entries of the request with quantity > 0, in the order of the request; no
\* earlier item remains and the other entries are dropped.
C7_EditReplacesItems ==
    [][(/\ Served("edit")
        /\ resp'.code = 200
        /\ resp'.req.order_id \in DOMAIN orders
        /\ orders[resp'.req.order_id].status = "confirmed")
       => LET id == resp'.req.order_id
              kept == SelectSeq(resp'.req.items, LAMBDA e : e.quantity > 0)
          IN  ItemsOf(order_items', id) =
                  [k \in 1..Len(kept) |->
                      [order_id |-> id, item_name |-> kept[k].name,
                       quantity |-> kept[k].quantity]]]_vars

\* an edit with an entry of quantity 0 followed by one of quantity 1 succeeded
\* and the order holds the second entry alone
C7_Witness ==
    /\ resp.req.op = "edit" /\ resp.code = 200
    /\ Len(resp.req.items) = 2
    /\ resp.req.items[1].quantity = 0
    /\ resp.req.items[2].quantity = 1
    /\ Len(ItemsOf(order_items, resp.req.order_id)) = 1
    /\ ItemsOf(order_items, resp.req.order_id)[1].item_name = resp.req.items[2].name

\* C8: a purge that commits removes every order whose status is deleted and
\* no other order, reports the number of orders it removed, and leaves no
\* order for the page of rejected orders to list.
C8_PurgeRemovesDeleted ==
    [][(Served("purge") /\ resp'.code = 200)
       => /\ DOMAIN orders' = {i \in DOMAIN orders : orders[i].status \in {"pending", "confirmed"}}
          /\ \A i \in DOMAIN orders : orders[i].status = "deleted" => i \notin DOMAIN orders'
          /\ \A i \in DOMAIN orders' : orders'[i] = orders[i]
          /\ resp'.count = Cardinality(DOMAIN orders \ DOMAIN orders')
          /\ admin_orders_deleted(orders') = {}]_vars

\* a purge removed one order and left a confirmed one
C8_Witness ==
    /\ resp.req.op = "purge" /\ resp.code = 200 /\ resp.count = 1
    /\ \E i \in DOMAIN orders : orders[i].status = "confirmed"

\* C2: two confirm / reject requests that both find the same order pending
\* never both succeed.
C2_OnlyOneApplies ==
    \A v, w \in Workers :
        (/\ v # w
         /\ threads[v].pc = "done" /\ threads[w].pc = "done"
         /\ threads[v].order_id = threads[w].order_id)
        => ~(threads[v].code = 200 /\ threads[w].code = 200)

\* C4: of every stored order, confirmed_at is set exactly when the status is
\* confirmed, deleted_at exactly when it is deleted, never both, and a
\* timestamp that is set is not written again.
StampsFollowStatus ==
    \A i \in DOMAIN orders :
        /\ orders[i].confirmed_at # NULL <=> orders[i].status = "confirmed"
        /\ orders[i].deleted_at # NULL <=> orders[i].status = "deleted"
        /\ ~(orders[i].confirmed_at # NULL /\ orders[i].deleted_at # NULL)

StampsWrittenOnce ==
    \A i \in DOMAIN orders \cap DOMAIN orders' :
        /\ orders[i].confirmed_at # NULL => orders'[i].confirmed_at = orders[i].confirmed_at
        /\ orders[i].deleted_at # NULL => orders'[i].deleted_at = orders[i].deleted_at

C4_TimestampsFollowStatus == []StampsFollowStatus /\ [][StampsWrittenOnce]_vars

\* C9: the report lists, for each item name, the sum of the quantities of the
\* order items of the orders that are confirmed with start_date <=
\* confirmed_at <= end_date; names are told apart by exact spelling, and a
\* name with no such order item is not listed.
C9_ReportSumsConfirmed ==
    (resp.req.op = "report" /\ resp.code = 200)
    => LET r == resp.report
           included == {i \in DOMAIN orders :
                           /\ orders[i].status = "confirmed"
                           /\ r.start_date <= orders[i].confirmed_at
                           /\ orders[i].confirmed_at <= r.end_date}
           K(n) == {k \in 1..Len(order_items) :
                       /\ order_items[k].order_id \in included
                       /\ order_items[k].item_name = n}
           names == {order_items[k].item_name : k \in
                        {j \in 1..Len(order_items) : order_items[j].order_id \in included}}
       IN  /\ {r.items[k] : k \in 1..Len(r.items)} = {<<n, SumQty(order_items, K(n))>> : n \in names}
           /\ Len(r.items) = Cardinality(names)

\* a report over a window of dates lists "Water" and "water" apart, from the
\* one confirmed order inside the window; another confirmed order lies after it
C9_Witness ==
    /\ resp.req.op = "report" /\ resp.code = 200
    /\ resp.req.start_date.ok /\ resp.req.end_date.ok
    /\ resp.report.total_orders = 1
    /\ {resp.report.items[k][1] : k \in 1..Len(resp.report.items)} = {"Water", "water"}
    /\ \E i \in DOMAIN orders :
           orders[i].status = "confirmed" /\ orders[i].confirmed_at > resp.report.end_date

\* C10: an order that is pending or deleted adds nothing to the report,
\* whatever its timestamps: without that order the item totals and
\* total_orders are the same.
C10_OnlyConfirmedCount ==
    (resp.req.op = "report" /\ resp.code = 200)
    => \A o \in DOMAIN orders :
           orders[o].status \in {"pending", "deleted"}
           => ReportBetween([i \in DOMAIN orders \ {o} |-> orders[i]],
                            WithoutItemsOf(order_items, {o}),
                            resp.report.start_date, resp.report.end_date)
                  = resp.report

\* a report counted one order while a deleted order carried a confirmed_at
\* inside the window
C10_Witness ==
    /\ resp.req.op = "report" /\ resp.code = 200
    /\ resp.report.total_orders = 1
    /\ \E o \in DOMAIN orders :
           /\ orders[o].status = "deleted"
           /\ orders[o].confirmed_at # NULL
           /\ resp.report.start_date <= orders[o].confirmed_at
           /\ orders[o].confirmed_at <= resp.report.end_date

\* C11: the notification is attempted only once the order has been committed,
\* and whatever becomes of it (sent, failed, skipped for missing credentials)
\* the new order is stored as pending and the submission reports success.
C11_MailAfterCommit ==
    [][(Served("submit") /\ resp'.mail # "none")
       => /\ resp'.mail \in {"skipped", "sent", "failed"}
          /\ resp'.msg = "success"
          /\ \E oid \in (DOMAIN orders') \ DOMAIN orders :
                 /\ orders'[oid].status = "pending"
                 /\ ItemsOf(order_items', oid) # <<>>]_vars

\* the notification of a second order failed; the order is stored as pending
\* and the submission reported success
C11_Witness ==
    /\ resp.req.op = "submit" /\ resp.mail = "failed" /\ resp.msg = "success"
    /\ DOMAIN orders = {1, 2}
    /\ orders[2].status = "pending"

\* C12: a request causes a notification attempt exactly when it is a
\* submission that stores a new order, and then it causes one; confirm,
\* reject, edit and purge cause none.
C12_OneMailPerOrder ==
    [][/\ Served("submit")
           => (resp'.mail \in {"skipped", "sent", "failed"}
                  <=> DOMAIN orders' # DOMAIN orders)
       /\ (Served("confirm") \/ Served("reject") \/ Served("edit") \/ Served("purge"))
           => resp'.mail = "none"]_vars

\* a confirm succeeded on an order whose submission had been notified, and
\* attempted no notification
C12_Witness ==
    /\ resp.req.op = "confirm" /\ resp.code = 200 /\ resp.mail = "none"
    /\ orders[resp.req.order_id].status = "confirmed"

\* C13: total_orders of the report is the number of orders that are
\* confirmed with confirmed_at inside the window.
C13_TotalOrdersCountsIncluded ==
    (resp.req.op = "report" /\ resp.code = 200)
    => resp.report.total_orders =
           Cardinality({i \in DOMAIN orders :
                           /\ orders[i].status = "confirmed"
                           /\ orders[i].confirmed_at >= resp.report.start_date
                           /\ orders[i].confirmed_at <= resp.report.end_date})

\* a report counted one of two confirmed orders; the other was confirmed
\* before start_date
C13_Witness ==
    /\ resp.req.op = "report" /\ resp.code = 200
    /\ resp.report.total_orders = 1
    /\ DOMAIN orders = {1, 2}
    /\ \A i \in DOMAIN orders : orders[i].status = "confirmed"
    /\ \E i \in DOMAIN orders : orders[i].confirmed_at < resp.report.start_date

\* the place of an order item in the scan of the selected orders: orders by
\* id, and the items of an order by rowid
ScanKey(k) == order_items[k].order_id * (Len(order_items) + 1) + k

\* the first place at which name n is met in the scan of the report's orders
FirstSeen(n) ==
    LET r == resp.report
        K == {k \in 1..Len(order_items) :
                 /\ order_items[k].item_name = n
                 /\ order_items[k].order_id \in DOMAIN orders
                 /\ orders[order_items[k].order_id].status = "confirmed"
                 /\ orders[order_items[k].order_id].confirmed_at >= r.start_date
                 /\ orders[order_items[k].order_id].confirmed_at <= r.end_date}
        first == CHOOSE k \in K : \A j \in K : ScanKey(k) <= ScanKey(j)
    IN  ScanKey(first)

\* C14: the report's items come by total, largest first, and items of equal
\* total in the order in which their names were first met in the scan of
\* the selected orders' items.
C14_SortedByTotalStable ==
    (resp.req.op = "report" /\ resp.code = 200)
    => LET l == resp.report.items
       IN  \A a, b \in 1..Len(l) :
               a < b => \/ l[a][2] > l[b][2]
                        \/ /\ l[a][2] = l[b][2]
                           /\ FirstSeen(l[a][1]) < FirstSeen(l[b][1])

\* a report lists "water" before "Water" with equal totals
C14_Witness ==
    /\ resp.req.op = "report" /\ resp.code = 200
    /\ Len(resp.report.items) = 2
    /\ resp.report.items[1][1] = "water"
    /\ resp.report.items[2][1] = "Water"
    /\ resp.report.items[1][2] = resp.report.items[2][2]

\* C15: in a logged-in session, confirm, reject or edit of an order id that is
\* not stored (never created, or removed by a purge) is answered 404 and
\* leaves every order and every order item as it was.
C15_MissingOrderNotFound ==
    [][(/\ (Served("confirm") \/ Served("reject") \/ Served("edit"))
        /\ admin_logged_in
        /\ resp'.req.order_id \notin DOMAIN orders)
       => /\ resp'.code = 404
          /\ orders' = orders
          /\ order_items' = order_items]_vars

\* a reject of order 1 was answered 404 after a purge had removed order 1
\* and left order 2
C15_Witness ==
    /\ resp.req.op = "reject" /\ resp.code = 404
    /\ resp.req.order_id = 1
    /\ DOMAIN orders = {2}

\* C16: at every step, whatever requests are in flight, an order that is
\* confirmed stays stored and confirmed, an order that is deleted stays
\* deleted while it is stored, and an order that is not pending does not
\* become pending.
C16_StatusOneWay ==
    [][\A i \in DOMAIN orders :
           /\ orders[i].status = "confirmed"
                  => (i \in DOMAIN orders' /\ orders'[i].status = "confirmed")
           /\ orders[i].status = "deleted"
                  => (i \notin DOMAIN orders' \/ orders'[i].status = "deleted")
           /\ (orders[i].status # "pending" /\ i \in DOMAIN orders')
                  => orders'[i].status # "pending"]_vars

\* C17: every stored order owns at least one order item, and every order item
\* has a quantity of at least 1.
C17_OrdersOwnItems ==
    /\ \A i \in DOMAIN orders : ItemsOf(order_items, i) # <<>>
    /\ \A k \in 1..Len(order_items) : order_items[k].quantity >= 1

\* C18: an edit that fails once it has begun to replace the items (a
\* malformed entry, or a failing commit), and a confirm or reject that fails
\* at commit, leave every order and every order item as last committed: the
\* order keeps its items, status, timestamps and comment.
C18_FailureRollsBack ==
    [][(/\ (Served("edit") \/ Served("confirm") \/ Served("reject"))
        /\ resp'.code = 500)
       => /\ orders' = orders
          /\ order_items' = order_items]_vars

\* an edit whose second entry has no name failed after a first good entry;
\* the confirmed order still holds the item it was submitted with
C18_Witness ==
    /\ resp.req.op = "edit" /\ resp.code = 500
    /\ Len(resp.req.items) = 2
    /\ resp.req.items[1].has_name /\ resp.req.items[1].quantity > 0
    /\ ~resp.req.items[2].has_name
    /\ orders[resp.req.order_id].status = "confirmed"
    /\ ItemsOf(order_items, resp.req.order_id) =
           <<[order_id |-> resp.req.order_id, item_name |-> "water", quantity |-> 2]>>

\* C19: a successful edit leaves every row of the Order table as it was (the
\* target's customer fields, timestamp, status, confirmed_at and
\* admin_comment among them) and leaves the items of every other order as
\* they were.
C19_EditTouchesItemsOnly ==
    [][(Served("edit") /\ resp'.code = 200)
       => /\ orders' = orders
          /\ \A j \in DOMAIN orders \ {resp'.req.order_id} :
                 ItemsOf(order_items', j) = ItemsOf(order_items, j)]_vars

\* an edit replaced the items of order 1 while order 2 keeps the item it
\* was submitted with
C19_Witness ==
    /\ resp.req.op = "edit" /\ resp.code = 200 /\ resp.req.order_id = 1
    /\ DOMAIN orders = {1, 2}
    /\ orders[1].status = "confirmed" /\ orders[1].admin_comment = <<"k">>
    /\ ItemsOf(order_items, 1) = <<[order_id |-> 1, item_name |-> "Water", quantity |-> 1]>>
    /\ ItemsOf(order_items, 2) = <<[order_id |-> 2, item_name |-> "water", quantity |-> 2]>>

\* C20: adding, bulk adding, renaming or deleting an Item leaves every order
\* and every order item as it was, and with them every weekly report.
C20_CatalogLeavesOrders ==
    [][(Served("item_add") \/ Served("item_bulk") \/ Served("item_delete")
            \/ Served("item_edit"))
       => /\ orders' = orders
          /\ order_items' = order_items
          /\ \A start_param, end_param \in {NoDate, Date(0)} :
                 WeeklyReport(orders', order_items', start_param, end_param)
                     = WeeklyReport(orders, order_items, start_param, end_param)]_vars

\* the Item "Water" was renamed "Tea" while the confirmed order 1 keeps its
\* item named "Water"
C20_Witness ==
    /\ resp.req.op = "item_edit" /\ resp.code = 200
    /\ resp.req.item_id \in DOMAIN items
    /\ items[resp.req.item_id] = "Tea"
    /\ \A i \in DOMAIN items : items[i] # "Water"
    /\ ItemsOf(order_items, 1) =
           <<[order_id |-> 1, item_name |-> "Water", quantity |-> 2],
             [order_id |-> 1, item_name |-> "water", quantity |-> 2]>>

\* C21: every stored order item belongs to a stored order; a purge removes
\* the items of the orders it removes in the same commit.
C21_ItemsBelongToOrders ==
    \A k \in 1..Len(order_items) : order_items[k].order_id \in DOMAIN orders

\* a purge removed order 2 with its items and left order 1 with its own
C21_Witness ==
    /\ resp.req.op = "purge" /\ resp.code = 200 /\ resp.count = 1
    /\ DOMAIN orders = {1}
    /\ Len(order_items) >= 1
    /\ \A k \in 1..Len(order_items) : order_items[k].order_id = 1

\* the calendar day a datetime falls on
DayOf(t) == t \div HalfSecondsPerDay

\* C22: with both dates given, the report counts exactly the confirmed orders
\* confirmed on a day from start_date to end_date, the whole of the last day
\* included; with no date given, exactly those confirmed in the 7 days that
\* end now.
C22_WindowCoversWholeDays ==
    (resp.req.op = "report" /\ resp.code = 200)
    => LET start_param == resp.req.start_date
           end_param == resp.req.end_date
           confirmed == {i \in DOMAIN orders : orders[i].status = "confirmed"}
       IN  /\ (start_param.ok /\ end_param.ok)
                  => resp.report.total_orders =
                         Cardinality({i \in confirmed :
                             /\ DayOf(orders[i].confirmed_at) >= start_param.day
                             /\ DayOf(orders[i].confirmed_at) <= end_param.day})
           /\ (~start_param.present /\ ~end_param.present)
                  => resp.report.total_orders =
                         Cardinality({i \in confirmed :
                             /\ orders[i].confirmed_at >= now - 7 * HalfSecondsPerDay
                             /\ orders[i].confirmed_at <= now})

\* the first Sunday on or after day d
FirstSundayOnOrAfter(d) == CHOOSE s \in d..(d + 6) : Weekday(s) = 6

\* the rows of a grouped report over the order items picked by K, each put
\* into the week that ends on the first Sunday on or after the day of when(k)
GroupedRows(K, when(_)) ==
    LET week(k) == Midnight(FirstSundayOnOrAfter(DayOf(when(k))))
    IN  {[item_name |-> order_items[k].item_name,
          timestamp |-> week(k),
          quantity |-> SumQty(order_items,
                              {j \in K : /\ order_items[j].item_name = order_items[k].item_name
                                         /\ week(j) = week(k)})] : k \in K}

SummaryRows == {resp.report.weekly_summary[g] : g \in 1..Len(resp.report.weekly_summary)}

ByWeekThenName(g, h) ==
    \/ g.timestamp < h.timestamp
    \/ g.timestamp = h.timestamp /\ NameRank(g.item_name) < NameRank(h.item_name)

ByNameThenWeek(g, h) ==
    \/ NameRank(g.item_name) < NameRank(h.item_name)
    \/ g.item_name = h.item_name /\ g.timestamp < h.timestamp

\* C24 as stated: the rows of the grouped weekly summary are ordered by week
\* ending date ascending and, within one week, by item name ascending.
C24_RowsByWeekThenName ==
    resp.req.op = "analyze"
    => \A g, h \in 1..Len(resp.report.weekly_summary) :
           g < h => ByWeekThenName(resp.report.weekly_summary[g],
                                   resp.report.weekly_summary[h])

\* C24, amended: the rows of the grouped weekly summary are ordered by item
\* name ascending and, within one item name, by week ending date ascending.
C24_RowsByNameThenWeek ==
    resp.req.op = "analyze"
    => \A g, h \in 1..Len(resp.report.weekly_summary) :
           g < h => ByNameThenWeek(resp.report.weekly_summary[g],
                                   resp.report.weekly_summary[h])

\* "Water" ordered in the second week is listed before "water" ordered in the
\* first
C24_Witness ==
    /\ resp.req.op = "analyze"
    /\ resp.report.weekly_summary =
           <<[item_name |-> "Water", timestamp |-> Midnight(13), quantity |-> 2],
             [item_name |-> "water", timestamp |-> Midnight(6), quantity |-> 1]>>

\* a name with its letters in lower case
Lower(n) == CASE n = "Tea" -> "tea" [] n = "Water" -> "water" [] n = "water" -> "water"

\* no two items of the catalog have names that are equal ignoring case
CaseUnique(catalog) ==
    \A i, j \in DOMAIN catalog : Lower(catalog[i]) = Lower(catalog[j]) => i = j

\* C25: no add, bulk add, rename or delete makes a catalog hold two items
\* whose names are equal ignoring case: an add or a rename that would is
\* rejected and leaves the catalog as it was, and a bulk add skips the name.
C25_NoCaseDuplicates ==
    [][(/\ CaseUnique(items)
        /\ \/ Served("item_add")
           \/ Served("item_bulk")
           \/ Served("item_edit")
           \/ Served("item_delete"))
       => CaseUnique(items')]_vars

\* the step serves one of the requests the admin pages send
ServedAdminRequest ==
    \/ Served("confirm")
    \/ Served("reject")
    \/ Served("edit")
    \/ Served("purge")
    \/ Served("report")
    \/ Served("item_add")
    \/ Served("item_bulk")
    \/ Served("item_delete")
    \/ Served("item_edit")

\* C26: without a logged-in session (no login yet, or after a logout) a
\* confirm, reject, edit, purge, weekly report or catalog mutation changes no
\* order, no order item and no catalog item and returns no report data; a
\* guest's valid submission is stored without any login.
C26_AdminOnly ==
    [][/\ (~admin_logged_in /\ ServedAdminRequest)
          => /\ orders' = orders
             /\ order_items' = order_items
             /\ items' = items
             /\ resp'.report = NoReport
       /\ (/\ ~admin_logged_in
           /\ Served("submit")
           /\ ~BlankContact(resp'.req)
           /\ Wanted(resp'.req.form) # {}
           /\ resp'.msg # "error")
          => /\ resp'.msg = "success"
             /\ (DOMAIN orders') \ DOMAIN orders # {}]_vars

\* after a logout that followed the confirmation of order 1, the confirmation
\* of the pending order 2 was turned away and the order is still pending
C26_Witness ==
    /\ ~admin_logged_in
    /\ resp.req.op = "confirm" /\ resp.req.order_id = 2
    /\ resp.msg = "login_required"
    /\ DOMAIN orders = {1, 2}
    /\ orders[1].status = "confirmed"
    /\ orders[2].status = "pending" /\ orders[2].confirmed_at = NULL

\* the columns of row i of the order table
ColumnsOf(tbl, i) == DOMAIN tbl[i]

AllNewColumns == {NewColumns[c] : c \in 1..Len(NewColumns)}

\* C27: a run of the migration that does not fail leaves the four columns
\* present in every row, keeps the rows and the columns that were there,
\* changes no value of a column that was there except a NULL status, which
\* becomes pending, and leaves the four new columns unset or pending; a run
\* on a table that has the four columns changes nothing.
C27_MigrationIdempotent ==
    [][(Served("migrate") /\ resp'.msg # "failed")
       => /\ DOMAIN orders' = DOMAIN orders
          /\ \A i \in DOMAIN orders :
                /\ ColumnsOf(orders', i) = ColumnsOf(orders, i) \cup AllNewColumns
                /\ \A c \in ColumnsOf(orders, i) :
                       orders'[i][c] # orders[i][c]
                           => /\ c = "status"
                              /\ orders[i][c] = NullStatus
                              /\ orders'[i][c] = "pending"
                /\ \A c \in AllNewColumns \ ColumnsOf(orders, i) :
                       orders'[i][c] = (IF c = "status" THEN "pending"
                                        ELSE IF c = "admin_comment" THEN NullText
                                        ELSE NULL)
          /\ (\A i \in DOMAIN orders : AllNewColumns \subseteq ColumnsOf(orders, i))
                 => orders' = orders]_vars

\* a run added two columns to a table that had a status column: the status
\* of order 1 is pending and order 2 is still confirmed, with its comment
C27_Witness ==
    /\ resp.req.op = "migrate" /\ resp.msg = "completed" /\ resp.count = 2
    /\ DOMAIN orders = {1, 2}
    /\ orders[1].status = "pending"
    /\ orders[2].status = "confirmed" /\ orders[2].admin_comment = <<"k">>
    /\ orders[2].confirmed_at = NULL /\ orders[2].deleted_at = NULL

====
